---- MODULE Spec2Model ----
(***************************************************************************)
(* Lifecycle of a wess.Server (src/server.go): NewServer, Start,           *)
(* waitForStart with its listen-loop goroutine, waitForShutdown with its   *)
(* coordinator goroutine, and the readiness flag healthStatus.             *)
(*                                                                         *)
(* One Server instance is modelled.  Its caller calls Start up to          *)
(* MaxStarts times, a further time only once the previous call has failed  *)
(* or its shutdown coordinator has ended, and keeps the channels of the    *)
(* latest call only (shutdown, stop, err := server.Start(ctx)).  Every     *)
(* goroutine the code spawns is a process with its own program counter;    *)
(* the steps of different goroutines interleave freely.  The listen-loop   *)
(* goroutines of earlier calls stay in the model, since they may still     *)
(* write the readiness flag.                                               *)
(***************************************************************************)
EXTENDS Integers, Sequences, FiniteSets, TLC

\* ------------------------------------------------------------ bounds ----
\* number of Start calls made on the instance
MaxStarts == 2
\* number of stop triggers (programmatic sends and OS signals) per Start call
MaxTriggers == 2
\* server.go:454  server.ShutdownTimeout, counted in units of waiting time
\* (one unit is the longest the coordinator waits in one step)
TimeoutTicks == 2
\* number of serve loops of the instance that fail while they serve
MaxServeFailures == 1
\* number of Start calls in the behaviours that also have HTTP requests
ServeStarts == 1
\* number of characters of the sub-paths given to AddFrontend
MaxPathLen == 3
\* number of characters of the Origin header of a WebSocket upgrade
MaxOriginLen == 2
\* number of characters of WEBSOCKET_ALLOWED_ORIGINS
MaxAllowListLen == 3

\* --------------------------------------------------- program constants ---
\* server.go:195  options.Port = 80
DefaultPort == 80
\* server.go:201  options.ShutdownTimeout = time.Second * 15, in seconds
DefaultShutdownTimeout == 15
\* server.go:447  stop = make(chan os.Signal, 1)
StopCap == 1
\* server.go:448  shutdown = make(chan error, 1)
ShutdownCap == 1

\* the ports the configurations of the model are drawn from
Ports == {0, 9899}
ProbePorts == {0, 80, 9899}

StartIds == 1..MaxStarts
\* the two http.Server objects a Server may own
Srvs == {"probe", "web"}

VARIABLES
    resp,          \* the last response a handler wrote: <<route, status>>
    call,          \* a call of one of the library's functions, with its arguments
    result,        \* what that call returned
    options,       \* the ServerOptions the caller passed to NewServer
    ctxLeft,       \* time left before the coordinator's deadline context is done
    closed,        \* whether that coordinator called Close, per http.Server
    config,        \* the Server built by NewServer (ports, proberouter, probeserver)
    healthStatus,  \* Server.healthStatus of the instance: 0 Not Ready, 1 Ready
    healthRoutes,  \* how many times healthRoutes registered the probe routes
    inShutdown,    \* http.Server.inShutdown, per http.Server
    keepAlives,    \* keep-alives enabled, per http.Server
    nStarts,       \* number of Start calls made so far; the current call is nStarts
    spc,           \* where the caller is inside Start
    timer,         \* the time.After timer of the current waitForStart
    lpc,           \* program counter of each listen-loop goroutine
    lerr,          \* the error its ListenAndServe returned
    startRet,      \* what the latest Start call returned
    cpc,           \* program counter of the shutdown coordinator of the latest call
    copyHealth,    \* healthStatus of the Server copy that coordinator works on
    stop,          \* the stop channel the latest call returned
    shutdown,      \* the shutdown channel the latest call returned
    received,      \* the values the caller received from that shutdown channel
    nTrig,         \* number of triggers sent to that stop channel
    shutRes,       \* what the coordinator's Shutdown call returned, per http.Server
    readyDuring    \* whether healthStatus was 1 at some point during the latest Start call

vars == <<resp, call, result, options, ctxLeft, closed, config, healthStatus, healthRoutes, inShutdown, keepAlives, nStarts,
          spc, timer, lpc, lerr, startRet, cpc, copyHealth, stop, shutdown,
          received, nTrig, shutRes, readyDuring>>

\* ----------------------------------------------------------- NewServer ---
\* the options of the caller that NewServer reads; the CORS options other
\* than the three lists are kept as the set of those that are set
OtherCORSOptions ==
    {"ExposedCORSHeaders", "CORSMaxAge", "CORSAllowCredentials",
     "AllowOriginFunc", "CORSOptionsPasthrough", "CORSOptionsSuccessStatus"}

\* the ServerOptions of the function calls: zero and non-zero values of
\* every field, and a negative value of the two ports
AllOptions ==
    [ Port : Ports \cup {-1}, ProbePort : ProbePorts \cup {-1},
      Address : {"", "127.0.0.1"},
      ShutdownTimeout : {0, 30},
      HealthRootPath : {"", "/probez"},
      AllowedCORSMethods : {<<>>, <<"GET">>},
      AllowedCORSHeaders : {<<>>, <<"X-Token">>},
      AllowedCORSOrigins : {<<>>, <<"http://good.example">>},
      OtherCORS : {{}, OtherCORSOptions} \cup {{x} : x \in OtherCORSOptions} ]

\* the ServerOptions of the lifecycle: only the ports are set, to numbers
\* that a listener can be bound to
PortOptions ==
    {o \in AllOptions : /\ o.Port \in Ports /\ o.ProbePort \in ProbePorts
                        /\ o.Address = "" /\ o.ShutdownTimeout = 0
                        /\ o.HealthRootPath = ""
                        /\ o.AllowedCORSMethods = <<>>
                        /\ o.AllowedCORSHeaders = <<>>
                        /\ o.AllowedCORSOrigins = <<>>
                        /\ o.OtherCORS = {}}

\* applyDefaults with a negative port replaced by the default, like 0
applyDefaults_NegativePortDefaulted(opts) ==
    [opts EXCEPT
        !.Port = IF opts.Port <= 0 THEN DefaultPort ELSE opts.Port,
        !.Address = IF opts.Address = "" THEN "0.0.0.0" ELSE opts.Address,
        !.ShutdownTimeout = IF opts.ShutdownTimeout = 0
                            THEN DefaultShutdownTimeout ELSE opts.ShutdownTimeout,
        !.HealthRootPath = IF opts.ProbePort > 0 /\ opts.HealthRootPath = ""
                           THEN "/healthz" ELSE opts.HealthRootPath]

\* applyDefaults with a port that is set to 80 whatever was given
applyDefaults_PortAlways80(opts) ==
    [opts EXCEPT
        !.Port = DefaultPort,
        !.Address = IF opts.Address = "" THEN "0.0.0.0" ELSE opts.Address,
        !.ShutdownTimeout = IF opts.ShutdownTimeout = 0
                            THEN DefaultShutdownTimeout ELSE opts.ShutdownTimeout,
        !.HealthRootPath = IF opts.ProbePort > 0 /\ opts.HealthRootPath = ""
                           THEN "/healthz" ELSE opts.HealthRootPath]

\* server.go:194-202 and 239-242: the defaults NewServer writes into its
\* copy of the options
applyDefaults(opts) ==
    [opts EXCEPT
        !.Port = IF opts.Port = 0 THEN DefaultPort ELSE opts.Port,
        !.Address = IF opts.Address = "" THEN "0.0.0.0" ELSE opts.Address,
        !.ShutdownTimeout = IF opts.ShutdownTimeout = 0
                            THEN DefaultShutdownTimeout ELSE opts.ShutdownTimeout,
        !.HealthRootPath = IF opts.ProbePort > 0 /\ opts.HealthRootPath = ""
                           THEN "/healthz" ELSE opts.HealthRootPath]

\* corsEnabled with the exposed headers also taken as a reason to wrap
corsEnabled_AnyCORSOption(opts) ==
    \/ Len(opts.AllowedCORSMethods) > 0
    \/ Len(opts.AllowedCORSHeaders) > 0
    \/ Len(opts.AllowedCORSOrigins) > 0
    \/ "ExposedCORSHeaders" \in opts.OtherCORS

\* server.go:272: the condition under which the application router is
\* wrapped with the CORS middleware
corsEnabled(opts) ==
    \/ Len(opts.AllowedCORSMethods) > 0
    \/ Len(opts.AllowedCORSHeaders) > 0
    \/ Len(opts.AllowedCORSOrigins) > 0

\* NewServer with the probe port compared with the port as given, before
\* the default of lines 194-196 is applied
NewServer_ComparesGivenPort(opts) ==
    LET o == applyDefaults(opts)
    IN  [ Port            |-> o.Port,
          Address         |-> o.Address,
          ShutdownTimeout |-> o.ShutdownTimeout,
          HealthRootPath  |-> o.HealthRootPath,
          webhandler      |-> IF corsEnabled(opts) THEN "cors" ELSE "router",
          ProbePort       |-> o.ProbePort,
          proberouter     |-> o.ProbePort > 0,
          routerOf        |-> IF o.ProbePort > 0
                              THEN IF o.ProbePort = opts.Port THEN "web" ELSE "probe"
                              ELSE "none",
          probeserver     |-> o.ProbePort > 0 /\ o.ProbePort # opts.Port ]

\* NewServer with proberouter always made a subrouter of the application
\* router, also when a probe server is made
NewServer_ProbeRouterOfWebRouter(opts) ==
    LET o == applyDefaults(opts)
    IN  [ Port            |-> o.Port,
          Address         |-> o.Address,
          ShutdownTimeout |-> o.ShutdownTimeout,
          HealthRootPath  |-> o.HealthRootPath,
          webhandler      |-> IF corsEnabled(opts) THEN "cors" ELSE "router",
          ProbePort       |-> o.ProbePort,
          proberouter     |-> o.ProbePort > 0,
          routerOf        |-> IF o.ProbePort > 0 THEN "web" ELSE "none",
          probeserver     |-> o.ProbePort > 0 /\ o.ProbePort # o.Port ]

\* server.go:193-336: the defaults are applied (194-202, 239-242); with a
\* probe port above 0, proberouter is a subrouter of the application router
\* when the probe port equals the port (243-245), else a subrouter of a new
\* router that a new http.Server, probeserver, serves (246-266); the
\* handler of the web server is the application router, wrapped with the
\* CORS middleware or not (270-312).  routerOf names the http.Server whose
\* handler proberouter hangs under; Address and Port make webserver.Addr.
NewServer(opts) ==
    LET o == applyDefaults(opts)
    IN  [ Port            |-> o.Port,
          Address         |-> o.Address,
          ShutdownTimeout |-> o.ShutdownTimeout,
          HealthRootPath  |-> o.HealthRootPath,
          webhandler      |-> IF corsEnabled(opts) THEN "cors" ELSE "router",
          ProbePort       |-> o.ProbePort,
          proberouter     |-> o.ProbePort > 0,
          routerOf        |-> IF o.ProbePort > 0
                              THEN IF o.ProbePort = o.Port THEN "web" ELSE "probe"
                              ELSE "none",
          probeserver     |-> o.ProbePort > 0 /\ o.ProbePort # o.Port ]

\* server.go:339-341
IsReady == healthStatus = 1

\* the http.Server objects of the instance
Servers == IF config.probeserver THEN {"probe", "web"} ELSE {"web"}

\* an http.Server accepts connections while one listen loop serves on it
Listening(s) == \E k \in StartIds : lpc[k][s] = "serving"

\* InitInstance with an instance that NewServer marks as ready
InitInstance_ReadyAtConstruction ==
    /\ resp = <<"none", 0>>
    /\ config = NewServer(options)
    /\ ctxLeft = 0
    /\ closed = [s \in Srvs |-> FALSE]
    /\ healthStatus = 1
    /\ healthRoutes = 0
    /\ inShutdown = [s \in Srvs |-> FALSE]
    /\ keepAlives = [s \in Srvs |-> TRUE]
    /\ nStarts = 0
    /\ spc = "idle"
    /\ timer = "off"
    /\ lpc = [k \in StartIds |-> [s \in Srvs |-> "none"]]
    /\ lerr = [k \in StartIds |-> [s \in Srvs |-> "none"]]
    /\ startRet = "none"
    /\ cpc = "none"
    /\ copyHealth = 0
    /\ stop = <<>>
    /\ shutdown = <<>>
    /\ received = <<>>
    /\ nTrig = 0
    /\ shutRes = [s \in Srvs |-> "none"]
    /\ readyDuring = FALSE

\* the instance NewServer returns for the options (server.go:314-335): the
\* fields it does not set have their zero values, and nothing runs
InitInstance ==
    /\ resp = <<"none", 0>>
    /\ config = NewServer(options)
    /\ ctxLeft = 0
    /\ closed = [s \in Srvs |-> FALSE]
    /\ healthStatus = 0
    /\ healthRoutes = 0
    /\ inShutdown = [s \in Srvs |-> FALSE]
    /\ keepAlives = [s \in Srvs |-> TRUE]
    /\ nStarts = 0
    /\ spc = "idle"
    /\ timer = "off"
    /\ lpc = [k \in StartIds |-> [s \in Srvs |-> "none"]]
    /\ lerr = [k \in StartIds |-> [s \in Srvs |-> "none"]]
    /\ startRet = "none"
    /\ cpc = "none"
    /\ copyHealth = 0
    /\ stop = <<>>
    /\ shutdown = <<>>
    /\ received = <<>>
    /\ nTrig = 0
    /\ shutRes = [s \in Srvs |-> "none"]
    /\ readyDuring = FALSE

Init ==
    /\ options \in PortOptions
    /\ call = [fn |-> "none"]
    /\ result = [done |-> FALSE]
    /\ InitInstance

\* --------------------------------------------------------------- Start ---
\* server.go:417-428: waitForStart makes the started channel, spawns the
\* listen-loop goroutine of http.Server s and enters its select
waitForStartSpawn(k, s) ==
    /\ lpc' = [lpc EXCEPT ![k][s] = "store1"]
    /\ timer' = "running"
    /\ spc' = IF s = "probe" THEN "probeSelect" ELSE "webSelect"

\* server.go:363-380: Start registers the health routes when there is a
\* probe router, then waits for the probe server if there is one, else for
\* the web server.  The caller makes the call when no coordinator of an
\* earlier call is still at work, and from then on holds the results of
\* this call.
StartCall ==
    /\ spc = "idle"
    /\ nStarts < MaxStarts
    /\ cpc \in {"none", "done"}
    /\ nStarts' = nStarts + 1
    /\ healthRoutes' = IF config.proberouter THEN healthRoutes + 1 ELSE healthRoutes
    /\ waitForStartSpawn(nStarts + 1, IF config.probeserver THEN "probe" ELSE "web")
    /\ readyDuring' = IsReady
    /\ startRet' = "none"
    /\ cpc' = "none"
    /\ copyHealth' = 0
    /\ stop' = <<>>
    /\ shutdown' = <<>>
    /\ received' = <<>>
    /\ nTrig' = 0
    /\ shutRes' = [s \in Srvs |-> "none"]
    /\ ctxLeft' = 0
    /\ closed' = [s \in Srvs |-> FALSE]
    /\ UNCHANGED <<resp, call, result, options, config, healthStatus, inShutdown, keepAlives, lerr>>

\* the http.Server the current waitForStart waits for
SelectSrv == IF spc = "probeSelect" THEN "probe" ELSE "web"

\* TimerExpire with a select that has no time.After case: waitForStart goes
\* on only when the goroutine has ended
TimerExpire_WaitsForLoopEnd ==
    /\ spc \in {"probeSelect", "webSelect"}
    /\ timer = "running"
    /\ lpc[nStarts][SelectSrv] = "done"
    /\ timer' = "fired"
    /\ UNCHANGED <<resp, call, result, options, ctxLeft, closed, config,
                   healthStatus, healthRoutes, inShutdown, keepAlives, nStarts,
                   spc, lpc, lerr, startRet, cpc, copyHealth, stop, shutdown,
                   received, nTrig, shutRes, readyDuring>>

\* server.go:435: time.After(time.Second * 1) fires.  One second is long
\* against the steps of the goroutine that do not block (its stores, the
\* bind, the send to a select that is waiting): the window ends when the
\* goroutine is serving or has ended, and a bind error is received by the
\* select (SelectStarted) before the window ends.
TimerExpire ==
    /\ spc \in {"probeSelect", "webSelect"}
    /\ timer = "running"
    /\ lpc[nStarts][SelectSrv] \in {"serving", "done"}
    /\ timer' = "fired"
    /\ UNCHANGED <<resp, call, result, options, ctxLeft, closed, config, healthStatus, healthRoutes, inShutdown, keepAlives,
                   nStarts, spc, lpc, lerr, startRet, cpc, copyHealth, stop,
                   shutdown, received, nTrig, shutRes, readyDuring>>

\* SelectStarted with the check of line 377 left out: Start goes on to the
\* web server although waitForStart returned the probe server's error
SelectStarted_ProbeErrorIgnored ==
    /\ spc \in {"probeSelect", "webSelect"}
    /\ lpc[nStarts][SelectSrv] = "send"
    /\ IF spc = "probeSelect"
       THEN /\ lpc' = [lpc EXCEPT ![nStarts]["probe"] = "done",
                                  ![nStarts]["web"] = "store1"]
            /\ startRet' = startRet
            /\ spc' = "webSelect"
            /\ timer' = "running"
       ELSE /\ lpc' = [lpc EXCEPT ![nStarts]["web"] = "done"]
            /\ startRet' = "RuntimeError"
            /\ spc' = "idle"
            /\ timer' = "off"
    /\ UNCHANGED <<resp, call, result, options, ctxLeft, closed, config, healthStatus, healthRoutes, inShutdown, keepAlives,
                   nStarts, lerr, cpc, copyHealth, stop, shutdown, received,
                   nTrig, shutRes, readyDuring>>

\* SelectStarted with a Start that closes the probe server before it returns
\* the error of the web server
SelectStarted_ClosesProbe ==
    /\ spc \in {"probeSelect", "webSelect"}
    /\ lpc[nStarts][SelectSrv] = "send"
    /\ lpc' = [lpc EXCEPT ![nStarts][SelectSrv] = "done"]
    /\ startRet' = "RuntimeError"
    /\ inShutdown' = IF spc = "webSelect" /\ config.probeserver
                     THEN [inShutdown EXCEPT !["probe"] = TRUE]
                     ELSE inShutdown
    /\ spc' = "idle"
    /\ timer' = "off"
    /\ UNCHANGED <<resp, call, result, options, ctxLeft, closed, config,
                   healthStatus, healthRoutes, keepAlives, nStarts, lerr, cpc,
                   copyHealth, stop, shutdown, received, nTrig, shutRes,
                   readyDuring>>

\* SelectStarted with the wrap of line 433 left out: Start returns the
\* error of ListenAndServe as it is
SelectStarted_NotWrapped ==
    /\ spc \in {"probeSelect", "webSelect"}
    /\ lpc[nStarts][SelectSrv] = "send"
    /\ lpc' = [lpc EXCEPT ![nStarts][SelectSrv] = "done"]
    /\ startRet' = lerr[nStarts][SelectSrv]
    /\ spc' = "idle"
    /\ timer' = "off"
    /\ UNCHANGED <<resp, call, result, options, ctxLeft, closed, config, healthStatus, healthRoutes, inShutdown, keepAlives,
                   nStarts, lerr, cpc, copyHealth, stop, shutdown, received,
                   nTrig, shutRes, readyDuring>>

\* server.go:431-434 and 377-379, 382-384: the select receives the error the
\* goroutine sends on the unbuffered started channel; waitForStart wraps it
\* (errors.RuntimeError.Wrap) and Start returns nil, nil, err
SelectStarted ==
    /\ spc \in {"probeSelect", "webSelect"}
    /\ lpc[nStarts][SelectSrv] = "send"
    /\ lpc' = [lpc EXCEPT ![nStarts][SelectSrv] = "done"]
    /\ startRet' = "RuntimeError"
    /\ spc' = "idle"
    /\ timer' = "off"
    /\ UNCHANGED <<resp, call, result, options, ctxLeft, closed, config, healthStatus, healthRoutes, inShutdown, keepAlives,
                   nStarts, lerr, cpc, copyHealth, stop, shutdown, received,
                   nTrig, shutRes, readyDuring>>

\* server.go:446-451: waitForShutdown runs on a copy of the Server (value
\* receiver), makes the two channels, registers stop for the OS signals and
\* spawns the coordinator
waitForShutdown ==
    /\ copyHealth' = healthStatus
    /\ stop' = <<>>
    /\ shutdown' = <<>>
    /\ cpc' = "waitStop"

\* server.go:435-442 for the probe server, then 382: the grace window
\* elapsed, waitForStart returns nil and Start waits for the web server
SelectTimeoutProbe ==
    /\ spc = "probeSelect"
    /\ timer = "fired"
    /\ waitForStartSpawn(nStarts, "web")
    /\ UNCHANGED <<resp, call, result, options, ctxLeft, closed, config, healthStatus, healthRoutes, inShutdown, keepAlives,
                   nStarts, lerr, startRet, cpc, copyHealth, stop, shutdown,
                   received, nTrig, shutRes, readyDuring>>

\* server.go:435-442 for the web server, then 385-386: the grace window
\* elapsed, Start calls waitForShutdown and returns its channels and nil
SelectTimeoutWeb ==
    /\ spc = "webSelect"
    /\ timer = "fired"
    /\ waitForShutdown
    /\ startRet' = "nil"
    /\ spc' = "idle"
    /\ timer' = "off"
    /\ UNCHANGED <<resp, call, result, options, ctxLeft, closed, config, healthStatus, healthRoutes, inShutdown, keepAlives,
                   nStarts, lpc, lerr, received, nTrig, shutRes, readyDuring>>

\* ------------------------------------------------- listen-loop goroutine ---
\* a write of the instance's readiness flag, remembered by the Start call
\* that is in progress
SetHealth(v) ==
    /\ healthStatus' = v
    /\ readyDuring' = (readyDuring \/ (v = 1 /\ spc # "idle"))

\* server.go:420  atomic.StoreInt32(&server.healthStatus, 1)
L_Store1(k, s) ==
    /\ lpc[k][s] = "store1"
    /\ SetHealth(1)
    /\ lpc' = [lpc EXCEPT ![k][s] = "listen"]
    /\ UNCHANGED <<resp, call, result, options, ctxLeft, closed, config, healthRoutes, inShutdown, keepAlives, nStarts, spc,
                   timer, lerr, startRet, cpc, copyHealth, stop, shutdown,
                   received, nTrig, shutRes>>

\* L_Listen with an http.Server that can listen again after Shutdown or
\* Close
L_Listen_AfterShutdown(k, s) ==
    /\ lpc[k][s] = "listen"
    /\ \E bound \in BOOLEAN :
          IF bound /\ ~Listening(s)
          THEN /\ lpc' = [lpc EXCEPT ![k][s] = "serving"]
               /\ lerr' = lerr
          ELSE /\ lerr' = [lerr EXCEPT ![k][s] = "bind"]
               /\ lpc' = [lpc EXCEPT ![k][s] = "store0"]
    /\ UNCHANGED <<resp, call, result, options, ctxLeft, closed, config, healthStatus, healthRoutes, inShutdown, keepAlives,
                   nStarts, spc, timer, startRet, cpc, copyHealth, stop,
                   shutdown, received, nTrig, shutRes, readyDuring>>

\* server.go:422  httpserver.ListenAndServe(): it returns ErrServerClosed at
\* once on a server that was shut down; else it binds, which fails when the
\* address is taken (always so while another listen loop of this instance
\* serves on it) or invalid; on success it serves and does not return
L_Listen(k, s) ==
    /\ lpc[k][s] = "listen"
    /\ IF inShutdown[s]
       THEN /\ lerr' = [lerr EXCEPT ![k][s] = "closed"]
            /\ lpc' = [lpc EXCEPT ![k][s] = "store0"]
       ELSE \E bound \in BOOLEAN :
              IF bound /\ ~Listening(s)
              THEN /\ lpc' = [lpc EXCEPT ![k][s] = "serving"]
                   /\ lerr' = lerr
              ELSE /\ lerr' = [lerr EXCEPT ![k][s] = "bind"]
                   /\ lpc' = [lpc EXCEPT ![k][s] = "store0"]
    /\ UNCHANGED <<resp, call, result, options, ctxLeft, closed, config, healthStatus, healthRoutes, inShutdown, keepAlives,
                   nStarts, spc, timer, startRet, cpc, copyHealth, stop,
                   shutdown, received, nTrig, shutRes, readyDuring>>

\* server.go:422: Shutdown or Close closed the listener, the serve loop
\* returns ErrServerClosed
L_ServeReturns(k, s) ==
    /\ lpc[k][s] = "serving"
    /\ inShutdown[s]
    /\ lerr' = [lerr EXCEPT ![k][s] = "closed"]
    /\ lpc' = [lpc EXCEPT ![k][s] = "store0"]
    /\ UNCHANGED <<resp, call, result, options, ctxLeft, closed, config, healthStatus, healthRoutes, inShutdown, keepAlives,
                   nStarts, spc, timer, startRet, cpc, copyHealth, stop,
                   shutdown, received, nTrig, shutRes, readyDuring>>

\* the serve loops that have failed so far
ServeFailures == {ks \in StartIds \X Srvs : lerr[ks[1]][ks[2]] = "serve"}

\* server.go:422: the serve loop of a listener that was bound returns an
\* error of its own (a failed Accept), at any time while it serves
L_ServeFails(k, s) ==
    /\ lpc[k][s] = "serving"
    /\ ~inShutdown[s]
    /\ Cardinality(ServeFailures) < MaxServeFailures
    /\ lerr' = [lerr EXCEPT ![k][s] = "serve"]
    /\ lpc' = [lpc EXCEPT ![k][s] = "store0"]
    /\ UNCHANGED <<resp, call, result, options, ctxLeft, closed, config,
                   healthStatus, healthRoutes, inShutdown, keepAlives, nStarts,
                   spc, timer, startRet, cpc, copyHealth, stop, shutdown,
                   received, nTrig, shutRes, readyDuring>>

\* L_Store0 with a started channel that has room for the error: the send of
\* line 425 does not wait for a receiver and the goroutine ends
L_Store0_SendDoesNotBlock(k, s) ==
    /\ lpc[k][s] = "store0"
    /\ SetHealth(0)
    /\ lpc' = [lpc EXCEPT ![k][s] = "done"]
    /\ UNCHANGED <<resp, call, result, options, ctxLeft, closed, config,
                   healthRoutes, inShutdown, keepAlives, nStarts, spc, timer,
                   lerr, startRet, cpc, copyHealth, stop, shutdown, received,
                   nTrig, shutRes>>

\* L_Store0 with the store of line 423 left out for a bind error: the
\* readiness flag stays as the goroutine found it
L_Store0_BindErrorNotStored(k, s) ==
    /\ lpc[k][s] = "store0"
    /\ SetHealth(IF lerr[k][s] = "bind" THEN healthStatus ELSE 0)
    /\ lpc' = [lpc EXCEPT ![k][s] = IF lerr[k][s] # "closed" THEN "send" ELSE "done"]
    /\ UNCHANGED <<resp, call, result, options, ctxLeft, closed, config,
                   healthRoutes, inShutdown, keepAlives, nStarts, spc, timer,
                   lerr, startRet, cpc, copyHealth, stop, shutdown, received,
                   nTrig, shutRes>>

\* L_Store0 with the store of line 423 made only for the errors that are
\* sent: "http: Server closed" leaves the readiness flag as it is
L_Store0_ServerClosedNotStored(k, s) ==
    /\ lpc[k][s] = "store0"
    /\ SetHealth(IF lerr[k][s] # "closed" THEN 0 ELSE healthStatus)
    /\ lpc' = [lpc EXCEPT ![k][s] = IF lerr[k][s] # "closed" THEN "send" ELSE "done"]
    /\ UNCHANGED <<resp, call, result, options, ctxLeft, closed, config,
                   healthRoutes, inShutdown, keepAlives, nStarts, spc, timer,
                   lerr, startRet, cpc, copyHealth, stop, shutdown, received,
                   nTrig, shutRes>>

\* L_Store0 without the test of line 424: the goroutine sends
\* "http: Server closed" on the started channel like any other error
L_Store0_SendsServerClosed(k, s) ==
    /\ lpc[k][s] = "store0"
    /\ SetHealth(0)
    /\ lpc' = [lpc EXCEPT ![k][s] = "send"]
    /\ UNCHANGED <<resp, call, result, options, ctxLeft, closed, config,
                   healthRoutes, inShutdown, keepAlives, nStarts, spc, timer,
                   lerr, startRet, cpc, copyHealth, stop, shutdown, received,
                   nTrig, shutRes>>

\* server.go:423-426: store 0, then send the error unless it is
\* "http: Server closed"
L_Store0(k, s) ==
    /\ lpc[k][s] = "store0"
    /\ SetHealth(0)
    /\ lpc' = [lpc EXCEPT ![k][s] = IF lerr[k][s] # "closed" THEN "send" ELSE "done"]
    /\ UNCHANGED <<resp, call, result, options, ctxLeft, closed, config, healthRoutes, inShutdown, keepAlives, nStarts, spc,
                   timer, lerr, startRet, cpc, copyHealth, stop, shutdown,
                   received, nTrig, shutRes>>

ListenLoop(k, s) ==
    \/ L_Store1(k, s)
    \/ L_Listen(k, s)
    \/ L_ServeReturns(k, s)
    \/ L_ServeFails(k, s)
    \/ L_Store0(k, s)

\* ------------------------------------------------- shutdown coordinator ---
\* server.go:453-456  sig := <-stop, then the one deadline context of the
\* sequence is derived: context.WithTimeout(ctx, server.ShutdownTimeout)
C_RecvStop ==
    /\ cpc = "waitStop"
    /\ Len(stop) > 0
    /\ stop' = Tail(stop)
    /\ ctxLeft' = TimeoutTicks
    /\ cpc' = "store0"
    /\ UNCHANGED <<resp, call, result, options, closed, config, healthStatus, healthRoutes, inShutdown, keepAlives,
                   nStarts, spc, timer, lpc, lerr, startRet, copyHealth,
                   shutdown, received, nTrig, shutRes, readyDuring>>

\* C_Store0 with the block of lines 461-472 left out: the coordinator goes
\* to the web server at once
C_Store0_SkipProbe ==
    /\ cpc = "store0"
    /\ copyHealth' = 0
    /\ cpc' = "webKeepAlives"
    /\ UNCHANGED <<resp, call, result, options, ctxLeft, closed, config, healthStatus, healthRoutes,
                   inShutdown, keepAlives, nStarts, spc, timer, lpc, lerr,
                   startRet, stop, shutdown, received, nTrig, shutRes,
                   readyDuring>>

\* server.go:458  atomic.StoreInt32(&server.healthStatus, 0), where server
\* is the coordinator's copy of the Server (value receiver at line 446)
C_Store0 ==
    /\ cpc = "store0"
    /\ copyHealth' = 0
    /\ cpc' = IF config.probeserver THEN "probeKeepAlives" ELSE "webKeepAlives"
    /\ UNCHANGED <<resp, call, result, options, ctxLeft, closed, config, healthStatus, healthRoutes, inShutdown, keepAlives,
                   nStarts, spc, timer, lpc, lerr, startRet, stop, shutdown,
                   received, nTrig, shutRes, readyDuring>>

\* C_KeepAlives with the keep-alives of every http.Server disabled at the
\* first call
C_KeepAlives_EveryServer(s) ==
    /\ cpc = s \o "KeepAlives"
    /\ keepAlives' = [t \in Srvs |-> FALSE]
    /\ cpc' = s \o "Shutdown"
    /\ UNCHANGED <<resp, call, result, options, ctxLeft, closed, config,
                   healthStatus, healthRoutes, inShutdown, nStarts, spc, timer,
                   lpc, lerr, startRet, copyHealth, stop, shutdown, received,
                   nTrig, shutRes, readyDuring>>

\* server.go:465 and 476  SetKeepAlivesEnabled(false)
C_KeepAlives(s) ==
    /\ cpc = s \o "KeepAlives"
    /\ keepAlives' = [keepAlives EXCEPT ![s] = FALSE]
    /\ cpc' = s \o "Shutdown"
    /\ UNCHANGED <<resp, call, result, options, ctxLeft, closed, config, healthStatus, healthRoutes, inShutdown, nStarts,
                   spc, timer, lpc, lerr, startRet, copyHealth, stop, shutdown,
                   received, nTrig, shutRes, readyDuring>>

\* C_ShutdownInvoke with a deadline context of its own for each call
\* instead of the one context of line 454
C_ShutdownInvoke_OwnContext(s) ==
    /\ cpc = s \o "Shutdown"
    /\ inShutdown' = [inShutdown EXCEPT ![s] = TRUE]
    /\ ctxLeft' = TimeoutTicks
    /\ cpc' = s \o "Draining"
    /\ UNCHANGED <<resp, call, result, options, closed, config, healthStatus, healthRoutes,
                   keepAlives, nStarts, spc, timer, lpc, lerr, startRet,
                   copyHealth, stop, shutdown, received, nTrig, shutRes,
                   readyDuring>>

\* server.go:466 and 477: Shutdown(context) is invoked; it marks the server
\* as shutting down and closes its listeners, then waits for the connections
C_ShutdownInvoke(s) ==
    /\ cpc = s \o "Shutdown"
    /\ inShutdown' = [inShutdown EXCEPT ![s] = TRUE]
    /\ cpc' = s \o "Draining"
    /\ UNCHANGED <<resp, call, result, options, ctxLeft, closed, config, healthStatus, healthRoutes, keepAlives, nStarts,
                   spc, timer, lpc, lerr, startRet, copyHealth, stop, shutdown,
                   received, nTrig, shutRes, readyDuring>>

\* the errors http.Server.Shutdown returns: the context's error once the
\* context is done, the error of closing the listener otherwise
ShutdownErrs == {"deadline", "close"}

\* server.go:466 and 477: time passes while Shutdown(context) waits for the
\* connections of s to become idle
C_ShutdownWaits(s) ==
    /\ cpc = s \o "Draining"
    /\ ctxLeft > 0
    /\ ctxLeft' = ctxLeft - 1
    /\ UNCHANGED <<resp, call, result, options, closed, config, healthStatus, healthRoutes,
                   inShutdown, keepAlives, nStarts, spc, timer, lpc, lerr,
                   startRet, cpc, copyHealth, stop, shutdown, received, nTrig,
                   shutRes, readyDuring>>

\* C_ShutdownReturn with the web server's error handled as the probe
\* server's is: Close, and nothing sent for it
C_ShutdownReturn_WebErrorDropped(s) ==
    /\ cpc = s \o "Draining"
    /\ \E res \in {"nil", "close"} \cup (IF ctxLeft = 0 THEN {"deadline"} ELSE {}) :
          /\ shutRes' = [shutRes EXCEPT ![s] = res]
          /\ cpc' = IF s = "probe"
                    THEN IF res \in ShutdownErrs THEN "probeClose" ELSE "webKeepAlives"
                    ELSE "sendNil"
    /\ UNCHANGED <<resp, call, result, options, ctxLeft, closed, config, healthStatus, healthRoutes,
                   inShutdown, keepAlives, nStarts, spc, timer, lpc, lerr,
                   startRet, copyHealth, stop, shutdown, received, nTrig,
                   readyDuring>>

\* server.go:466-471 and 477-484: Shutdown returns; nil or the listener's
\* close error when the connections are idle, which they may be at once,
\* and context.DeadlineExceeded when they are not and the context is done
C_ShutdownReturn(s) ==
    /\ cpc = s \o "Draining"
    /\ \E res \in {"nil", "close"} \cup (IF ctxLeft = 0 THEN {"deadline"} ELSE {}) :
          /\ shutRes' = [shutRes EXCEPT ![s] = res]
          /\ cpc' = IF res \in ShutdownErrs THEN s \o "Close"
                    ELSE IF s = "probe" THEN "webKeepAlives" ELSE "sendNil"
    /\ UNCHANGED <<resp, call, result, options, ctxLeft, closed, config, healthStatus, healthRoutes, inShutdown, keepAlives,
                   nStarts, spc, timer, lpc, lerr, startRet, copyHealth, stop,
                   shutdown, received, nTrig, readyDuring>>

\* C_Close with the sequence given up after the probe server's Close: the
\* coordinator goes to its last send
C_Close_ProbeFailureAborts(s) ==
    /\ cpc = s \o "Close"
    /\ inShutdown' = [inShutdown EXCEPT ![s] = TRUE]
    /\ closed' = [closed EXCEPT ![s] = TRUE]
    /\ cpc' = IF s = "probe" THEN "sendNil" ELSE "sendErr"
    /\ UNCHANGED <<resp, call, result, options, ctxLeft, config, healthStatus, healthRoutes,
                   keepAlives, nStarts, spc, timer, lpc, lerr, startRet,
                   copyHealth, stop, shutdown, received, nTrig, shutRes,
                   readyDuring>>

\* server.go:468 and 480  Close() after a failed Shutdown
C_Close(s) ==
    /\ cpc = s \o "Close"
    /\ inShutdown' = [inShutdown EXCEPT ![s] = TRUE]
    /\ closed' = [closed EXCEPT ![s] = TRUE]
    /\ cpc' = IF s = "probe" THEN "webKeepAlives" ELSE "sendErr"
    /\ UNCHANGED <<resp, call, result, options, ctxLeft, config, healthStatus, healthRoutes, keepAlives, nStarts,
                   spc, timer, lpc, lerr, startRet, copyHealth, stop, shutdown,
                   received, nTrig, shutRes, readyDuring>>

\* C_SendErr with nil sent in place of the error
C_SendErr_SendsNil ==
    /\ cpc = "sendErr"
    /\ Len(shutdown) < ShutdownCap
    /\ shutdown' = Append(shutdown, "nil")
    /\ cpc' = "sendNil"
    /\ UNCHANGED <<resp, call, result, options, ctxLeft, closed, config, healthStatus, healthRoutes,
                   inShutdown, keepAlives, nStarts, spc, timer, lpc, lerr,
                   startRet, copyHealth, stop, received, nTrig, shutRes,
                   readyDuring>>

\* server.go:478 and 481  err = errors.RuntimeError.Wrap(err), shutdown <- err
C_SendErr ==
    /\ cpc = "sendErr"
    /\ Len(shutdown) < ShutdownCap
    /\ shutdown' = Append(shutdown, "RuntimeError")
    /\ cpc' = "sendNil"
    /\ UNCHANGED <<resp, call, result, options, ctxLeft, closed, config, healthStatus, healthRoutes, inShutdown, keepAlives,
                   nStarts, spc, timer, lpc, lerr, startRet, copyHealth, stop,
                   received, nTrig, shutRes, readyDuring>>

\* C_SendNil with the send of nil left out: the coordinator ends without
\* putting a value on the shutdown channel
C_SendNil_NoSend ==
    /\ cpc = "sendNil"
    /\ cpc' = "done"
    /\ UNCHANGED <<resp, call, result, options, ctxLeft, closed, config, healthStatus, healthRoutes, inShutdown, keepAlives,
                   nStarts, spc, timer, lpc, lerr, startRet, copyHealth, stop,
                   shutdown, received, nTrig, shutRes, readyDuring>>

\* server.go:485-486  shutdown <- nil, then the goroutine ends
C_SendNil ==
    /\ cpc = "sendNil"
    /\ Len(shutdown) < ShutdownCap
    /\ shutdown' = Append(shutdown, "nil")
    /\ cpc' = "done"
    /\ UNCHANGED <<resp, call, result, options, ctxLeft, closed, config, healthStatus, healthRoutes, inShutdown, keepAlives,
                   nStarts, spc, timer, lpc, lerr, startRet, copyHealth, stop,
                   received, nTrig, shutRes, readyDuring>>

Coordinator ==
    \/ C_RecvStop
    \/ C_Store0
    \/ \E s \in Srvs : C_KeepAlives(s)
    \/ \E s \in Srvs : C_ShutdownInvoke(s)
    \/ \E s \in Srvs : C_ShutdownWaits(s)
    \/ \E s \in Srvs : C_ShutdownReturn(s)
    \/ \E s \in Srvs : C_Close(s)
    \/ C_SendErr
    \/ C_SendNil

\* ------------------------------------------------------------ the caller ---
\* the channels of the latest Start call exist once waitForShutdown made them
Registered == cpc # "none"

\* a programmatic stop: stop <- os.Interrupt (README, the tests); the send
\* waits while the buffer is full
SendStop ==
    /\ Registered
    /\ nTrig < MaxTriggers
    /\ Len(stop) < StopCap
    /\ stop' = Append(stop, "signal")
    /\ nTrig' = nTrig + 1
    /\ UNCHANGED <<resp, call, result, options, ctxLeft, closed, config, healthStatus, healthRoutes, inShutdown, keepAlives,
                   nStarts, spc, timer, lpc, lerr, startRet, cpc, copyHealth,
                   shutdown, received, shutRes, readyDuring>>

\* server.go:449  signal.Notify(stop, os.Interrupt, syscall.SIGTERM): an OS
\* signal is offered to the registered stop channel without blocking and is
\* dropped when the buffer is full
OSSignal ==
    /\ Registered
    /\ nTrig < MaxTriggers
    /\ stop' = IF Len(stop) < StopCap THEN Append(stop, "signal") ELSE stop
    /\ nTrig' = nTrig + 1
    /\ UNCHANGED <<resp, call, result, options, ctxLeft, closed, config, healthStatus, healthRoutes, inShutdown, keepAlives,
                   nStarts, spc, timer, lpc, lerr, startRet, cpc, copyHealth,
                   shutdown, received, shutRes, readyDuring>>

\* the caller receives from the shutdown channel: err = <-shutdown
RecvShutdown ==
    /\ Len(shutdown) > 0
    /\ received' = Append(received, Head(shutdown))
    /\ shutdown' = Tail(shutdown)
    /\ UNCHANGED <<resp, call, result, options, ctxLeft, closed, config, healthStatus, healthRoutes, inShutdown, keepAlives,
                   nStarts, spc, timer, lpc, lerr, startRet, cpc, copyHealth,
                   stop, nTrig, shutRes, readyDuring>>

\* ------------------------------------------------------------ requests ---
\* route_health.go:13-14: the two probe routes
HealthPaths == {"liveness", "readiness"}

\* the paths of the requests: the probe routes, GET /test that the caller
\* added with AddRoute, the WebSocket route it added, and a path with no route
Paths == HealthPaths \cup {"test", "ws", "nowhere"}

\* the requests: a GET on each path, with an Origin the WebSocket upgrade
\* allows or, on the WebSocket route, rejects; and a DELETE on /test
Requests ==
    {<<"GET", p, TRUE>> : p \in Paths} \cup {<<"GET", "ws", FALSE>>, <<"DELETE", "test", TRUE>>}

\* healthHandler with a liveness probe that answers 200 whatever the
\* readiness is
healthHandler_LivenessAlwaysOK(probename) ==
    IF probename = "liveness" \/ IsReady THEN 200 ELSE 503

\* route_health.go:18-32: 503 when the server is not ready, else 200; the
\* probe name goes to the log only
healthHandler(probename) ==
    IF ~IsReady THEN 503 ELSE 200

\* the router of http.Server s has a route for path p: the probe routes on
\* the router that proberouter hangs under (route_health.go:13-14,
\* server.go:366-368), the caller's routes on the application router
\* (server.go:344-351)
Routed(s, p) ==
    IF p \in HealthPaths THEN healthRoutes > 0 /\ config.routerOf = s
    ELSE p \in {"test", "ws"} /\ s = "web"

\* the handler that answers the request and the status it writes:
\* notFoundHandler (route_notFound.go:10-19), methodNotAllowedHandler (all
\* routes are GET routes), healthHandler, the WebSocket handler after the
\* upgrade or the 4xx of a rejected upgrade (websocket.go:56-62), the
\* caller's handler
ServeHTTP(s, m, p, originAllowed) ==
    IF ~Routed(s, p) THEN <<"notFound", 404>>
    ELSE IF m # "GET" THEN <<"methodNotAllowed", 405>>
    ELSE IF p \in HealthPaths THEN <<p, healthHandler(p)>>
    ELSE IF p = "ws" THEN <<p, IF originAllowed THEN 101 ELSE 403>>
    ELSE <<p, 200>>

\* Request with a not-found handler that marks the server as not ready
Request_NotFoundClearsReadiness ==
    \E s \in Servers, r \in Requests :
        /\ Listening(s)
        /\ resp' = ServeHTTP(s, r[1], r[2], r[3])
        /\ healthStatus' = IF resp'[2] = 404 THEN 0 ELSE healthStatus
        /\ UNCHANGED <<call, result, options, ctxLeft, closed, config, healthRoutes,
                   inShutdown, keepAlives, nStarts, spc, timer, lpc, lerr,
                   startRet, cpc, copyHealth, stop, shutdown, received, nTrig,
                   shutRes, readyDuring>>

\* a request arrives on a connection of http.Server s, which serves its
\* connections while its serve loop runs, and the handler answers it
Request ==
    \E s \in Servers, r \in Requests :
        /\ Listening(s)
        /\ resp' = ServeHTTP(s, r[1], r[2], r[3])
        /\ UNCHANGED <<call, result, options, ctxLeft, closed, config, healthStatus, healthRoutes,
                   inShutdown, keepAlives, nStarts, spc, timer, lpc, lerr,
                   startRet, cpc, copyHealth, stop, shutdown, received, nTrig,
                   shutRes, readyDuring>>

Next ==
    \/ StartCall
    \/ TimerExpire
    \/ SelectStarted
    \/ SelectTimeoutProbe
    \/ SelectTimeoutWeb
    \/ \E k \in StartIds, s \in Srvs : ListenLoop(k, s)
    \/ Coordinator
    \/ SendStop
    \/ OSSignal
    \/ RecvShutdown

Spec == Init /\ [][Next]_vars

\* server.go:363-380: Start is called again while the coordinator of the
\* earlier call waits for its trigger and every http.Server of the instance
\* accepts connections.  The caller keeps the channels of the earlier call,
\* and its coordinator goes on waiting.
StartWhileServing ==
    /\ spc = "idle"
    /\ nStarts < MaxStarts
    /\ cpc = "waitStop"
    /\ \A s \in Servers : Listening(s) /\ ~inShutdown[s]
    /\ nStarts' = nStarts + 1
    /\ healthRoutes' = IF config.proberouter THEN healthRoutes + 1 ELSE healthRoutes
    /\ waitForStartSpawn(nStarts + 1, IF config.probeserver THEN "probe" ELSE "web")
    /\ readyDuring' = IsReady
    /\ startRet' = "none"
    /\ UNCHANGED <<resp, call, result, options, ctxLeft, closed, config,
                   healthStatus, inShutdown, keepAlives, lerr, cpc, copyHealth,
                   stop, shutdown, received, nTrig, shutRes>>

\* a Start call is in progress while the coordinator of an earlier call
\* exists
Restarting == spc # "idle" /\ cpc # "none"

\* the lifecycle with Start calls made while the instance serves.  Such a
\* call is short: its listen loop fails to bind at once, and until it has
\* returned no trigger is sent and no listener fails.
RestartNext ==
    \/ ~Restarting /\ Next
    \/ StartWhileServing
    \/ Restarting /\ SelectStarted
    \/ Restarting /\ \E s \in Srvs :
           \/ L_Store1(nStarts, s)
           \/ L_Listen(nStarts, s)
           \/ L_Store0(nStarts, s)

RestartSpec == Init /\ [][RestartNext]_vars

\* the lifecycle of the first ServeStarts Start calls, with the requests the
\* listeners answer meanwhile
ServeNext ==
    \/ Next /\ nStarts' <= ServeStarts
    \/ Request

ServeSpec == Init /\ [][ServeNext]_vars

\* ------------------------------------------------------ function calls ---
\* the call is one of NewServer
NewServerCalled ==
    \E o \in AllOptions : call = [fn |-> "NewServer", options |-> o]

\* route_frontend.go:16-19,26  what pfs.fs.Open returns: a file, or an error
OpenOutcomes == {"nil", "ErrNotExist", "ErrPermission"}

\* what the wrapped http.FileSystem holds at a path: the error of opening it,
\* its kind, the error of file.Stat(), the error of opening its index.html
\* (ErrNotExist when it has none), and the error of file.Close()
WrappedFiles ==
    [open : OpenOutcomes, kind : {"file", "dir"}, stat : {"nil", "ErrStat"},
     index : OpenOutcomes, close : {"nil", "ErrClosed"}]

\* the call is one of protectedFileSystem.Open
OpenCalled ==
    \E f \in WrappedFiles : call = [fn |-> "Open", fs |-> f]

\* Open without the check of index.html: a directory is returned as it is
Open_ListsDirectories(f) ==
    IF f.open # "nil" THEN [file |-> "nil", err |-> f.open]
    ELSE IF f.stat # "nil" THEN [file |-> "nil", err |-> f.stat]
    ELSE [file |-> f.kind, err |-> "nil"]

\* route_frontend.go:15-35  protectedFileSystem.Open(filepath): the file
\* returned ("nil", or the file or directory the wrapped filesystem opened)
\* and the error
Open(f) ==
    IF f.open # "nil" THEN [file |-> "nil", err |-> f.open]
    ELSE IF f.stat # "nil" THEN [file |-> "nil", err |-> f.stat]
    ELSE IF f.kind = "dir" /\ f.index # "nil"
         THEN IF f.close # "nil"
              THEN [file |-> "nil", err |-> f.close]
              ELSE [file |-> "nil", err |-> f.index]
    ELSE [file |-> f.kind, err |-> "nil"]

\* route_frontend.go:45  http.FileServer answers an error of Open with the
\* status of toHTTPError, and serves what Open returned otherwise
FileServer(r) ==
    IF r.err = "nil" THEN 200
    ELSE IF r.err = "ErrNotExist" THEN 404
    ELSE IF r.err = "ErrPermission" THEN 403
    ELSE 500

\* the characters of the sub-paths
PathChars == {"/", ".", "a"}

\* the sub-paths given to AddFrontend: strings of at most MaxPathLen
\* characters
RootPaths == UNION {[1..n -> PathChars] : n \in 0..MaxPathLen}

\* the mount paths given to AddFrontend
MountPaths == {"/", "/app"}

\* whether rootFS implements fs.SubFS, and what its Sub method returns
SubOutcomes == {"none", "nil", "ErrSub"}

\* route_frontend.go:41  the number of leading characters of name that are
\* not a slash
RECURSIVE elemLen(_)
elemLen(name) ==
    IF name = <<>> \/ Head(name) = "/" THEN 0 ELSE 1 + elemLen(Tail(name))

\* route_frontend.go:41  fs.ValidPath for a name other than ".": every
\* element between slashes is neither empty, nor "." nor ".."
RECURSIVE validElems(_)
validElems(name) ==
    LET i == elemLen(name)
        elem == SubSeq(name, 1, i)
    IN  IF elem \in {<<>>, <<".">>, <<".", ".">>} THEN FALSE
        ELSE IF i = Len(name) THEN TRUE
        ELSE validElems(SubSeq(name, i + 2, Len(name)))

\* route_frontend.go:41  fs.ValidPath(name), called by fs.Sub
ValidPath(name) == name = <<".">> \/ validElems(name)

\* route_frontend.go:41  the error of fs.Sub(rootFS, dir)
Sub(sub, dir) ==
    IF ~ValidPath(dir) THEN "ErrInvalid"
    ELSE IF dir = <<".">> THEN "nil"
    ELSE IF sub # "none" THEN sub
    ELSE "nil"

\* the call is one of AddFrontend
AddFrontendCalled ==
    \E p \in MountPaths, s \in SubOutcomes, d \in RootPaths :
        call = [fn |-> "AddFrontend", path |-> p, sub |-> s, rootPath |-> d]

\* AddFrontend that registers the route before it looks at the error of
\* fs.Sub
AddFrontend_RegistersBeforeSub(path, sub, rootPath) ==
    [err |-> Sub(sub, rootPath), routes |-> {path}]

\* route_frontend.go:40-47  AddFrontend(path, rootFS, rootPath): the error
\* returned and the path prefixes registered on the web router
AddFrontend(path, sub, rootPath) ==
    LET err == Sub(sub, rootPath)
    IN  IF err # "nil" THEN [err |-> err, routes |-> {}]
        ELSE [err |-> "nil", routes |-> {path}]

\* the characters of the Origin header and of WEBSOCKET_ALLOWED_ORIGINS: a
\* letter, the space, the comma, the star and the control character DEL
HeaderChars == {"a", " ", ",", "*", "DEL"}

\* the values of the Origin header; the empty string is no header
Origins == UNION {[1..n -> HeaderChars] : n \in 0..MaxOriginLen}

\* the values of WEBSOCKET_ALLOWED_ORIGINS; the empty string is no variable
AllowLists == UNION {[1..n -> HeaderChars] : n \in 0..MaxAllowListLen}

\* websocket.go:31  url.Parse(origin) returns an error for a string with a
\* control character; no other string of HeaderChars makes it fail
ParseFails(origin) == \E i \in 1..Len(origin) : origin[i] = "DEL"

\* websocket.go:37  the number of leading characters of s that are not a
\* comma
RECURSIVE fieldLen(_)
fieldLen(s) ==
    IF s = <<>> \/ Head(s) = "," THEN 0 ELSE 1 + fieldLen(Tail(s))

\* websocket.go:37  strings.Split(s, ","): the substrings between the
\* commas, one more than there are commas
RECURSIVE Split(_)
Split(s) ==
    LET i == fieldLen(s)
    IN  IF i = Len(s) THEN <<s>>
        ELSE <<SubSeq(s, 1, i)>> \o Split(SubSeq(s, i + 2, Len(s)))

\* websocket.go:44  strings.TrimSpace(s) without the leading spaces
RECURSIVE TrimLeft(_)
TrimLeft(s) ==
    IF s # <<>> /\ Head(s) = " " THEN TrimLeft(Tail(s)) ELSE s

\* websocket.go:44  strings.TrimSpace(s) without the trailing spaces
RECURSIVE TrimRight(_)
TrimRight(s) ==
    IF s # <<>> /\ s[Len(s)] = " " THEN TrimRight(SubSeq(s, 1, Len(s) - 1)) ELSE s

\* websocket.go:44  strings.TrimSpace(s)
TrimSpace(s) == TrimRight(TrimLeft(s))

\* the call is one of WebSocketHandler.ServeHTTP, with a well-formed
\* handshake whose Origin host is or is not the host of the request
UpgradeCalled ==
    \E o \in Origins, l \in AllowLists, h \in BOOLEAN :
        call = [fn |-> "Upgrade", origin |-> o, allowList |-> l, hostDiffers |-> h]

\* CheckOrigin with an empty list that allows the origins of the request's
\* own host
CheckOrigin_SameHostAllowed(origin, allowList, hostDiffers) ==
    IF Len(origin) = 0 THEN TRUE
    ELSE IF ParseFails(origin) THEN FALSE
    ELSE IF allowList = <<>> THEN ~hostDiffers
    ELSE LET allowedOrigins == Split(allowList)
         IN  \E i \in 1..Len(allowedOrigins) :
                 \/ TrimSpace(allowedOrigins[i]) = <<"*">>
                 \/ TrimSpace(allowedOrigins[i]) = origin

\* CheckOrigin that compares the entries of the list as they are written
CheckOrigin_EntriesNotTrimmed(origin, allowList, hostDiffers) ==
    IF Len(origin) = 0 THEN TRUE
    ELSE IF ParseFails(origin) THEN FALSE
    ELSE LET allowedOrigins == Split(allowList)
         IN  IF Len(allowedOrigins) = 0 /\ hostDiffers THEN FALSE
             ELSE \E i \in 1..Len(allowedOrigins) :
                      \/ allowedOrigins[i] = <<"*">>
                      \/ allowedOrigins[i] = origin

\* websocket.go:22-51  upgrader.CheckOrigin(r)
CheckOrigin(origin, allowList, hostDiffers) ==
    IF Len(origin) = 0 THEN TRUE
    ELSE IF ParseFails(origin) THEN FALSE
    ELSE LET allowedOrigins == Split(allowList)
         IN  IF Len(allowedOrigins) = 0 /\ hostDiffers THEN FALSE
             ELSE \E i \in 1..Len(allowedOrigins) :
                      \/ TrimSpace(allowedOrigins[i]) = <<"*">>
                      \/ TrimSpace(allowedOrigins[i]) = origin

\* websocket.go:56-63  WebSocketHandler.ServeHTTP: upgrader.Upgrade answers
\* 403 and returns an error when CheckOrigin is false, and ServeHTTP returns
\* without calling the handler; otherwise the protocol is switched and the
\* handler is called with the connection
Upgrade(origin, allowList, hostDiffers) ==
    IF ~CheckOrigin(origin, allowList, hostDiffers)
    THEN [allowed |-> FALSE, status |-> 403, handlerCalled |-> FALSE]
    ELSE [allowed |-> TRUE, status |-> 101, handlerCalled |-> TRUE]

\* the call is one of a function of the library that does not take part in
\* the lifecycle
Called == NewServerCalled \/ OpenCalled \/ AddFrontendCalled \/ UpgradeCalled

\* a call returns: nothing but its result changes
Returns(v) ==
    /\ ~result.done
    /\ result' = [done |-> TRUE, value |-> v]
    /\ UNCHANGED <<resp, call, options, ctxLeft, closed, config, healthStatus,
                   healthRoutes, inShutdown, keepAlives, nStarts, spc, timer,
                   lpc, lerr, startRet, cpc, copyHealth, stop, shutdown,
                   received, nTrig, shutRes, readyDuring>>

\* server.go:193  NewServer(options) is called and returns the Server
CallNewServer ==
    /\ call.fn = "NewServer"
    /\ Returns(NewServer(call.options))

\* an instance made with no option set, and one call of a function
FnInit ==
    /\ options \in {o \in PortOptions : o.Port = 0 /\ o.ProbePort = 0}
    /\ Called
    /\ result = [done |-> FALSE]
    /\ InitInstance

\* route_frontend.go:15  Open is called on a protectedFileSystem and returns
CallOpen ==
    /\ call.fn = "Open"
    /\ Returns(Open(call.fs))

\* route_frontend.go:40  AddFrontend is called and returns
CallAddFrontend ==
    /\ call.fn = "AddFrontend"
    /\ Returns(AddFrontend(call.path, call.sub, call.rootPath))

\* websocket.go:56  WebSocketHandler.ServeHTTP is called and returns
CallUpgrade ==
    /\ call.fn = "Upgrade"
    /\ Returns(Upgrade(call.origin, call.allowList, call.hostDiffers))

FnNext ==
    \/ CallNewServer
    \/ CallOpen
    \/ CallAddFrontend
    \/ CallUpgrade

FnSpec == FnInit /\ [][FnNext]_vars

\* the Go scheduler runs every runnable goroutine, and each Shutdown call
\* returns by its deadline: the coordinator's steps are weakly fair
LiveSpec == Spec /\ WF_vars(Coordinator)

\* the steps of a listen-loop goroutine that the goroutine takes by itself:
\* its stores, its call of ListenAndServe, and the return of that call once
\* the listener is closed
LoopRuns(k, s) ==
    \/ L_Store1(k, s)
    \/ L_Listen(k, s)
    \/ L_ServeReturns(k, s)
    \/ L_Store0(k, s)

\* the Go scheduler runs every listen-loop goroutine that can take a step
LoopLiveSpec == Spec /\ \A k \in StartIds, s \in Srvs : WF_vars(LoopRuns(k, s))

\* the steps of the goroutine that called Start: the two cases of the select
\* of waitForStart, the second after the second has passed
StartRuns ==
    \/ TimerExpire
    \/ SelectStarted
    \/ SelectTimeoutProbe
    \/ SelectTimeoutWeb

\* the scheduler also runs the goroutine that called Start, and time passes
StartLiveSpec == LoopLiveSpec /\ WF_vars(StartRuns)

\* ------------------------------------------------------------- claims ---
\* Start is executing
InStart == spc # "idle"

\* the listen loop that the Start call in progress spawned for s has come
\* back from its bind attempt, successfully or not
BindCompleted(s) == lpc[nStarts][s] \in {"serving", "store0", "send", "done"}

\* number of values the coordinator has put on the shutdown channel
Placed == Len(shutdown) + Len(received)

\* the first value the coordinator put on the shutdown channel
FirstValue == IF received # <<>> THEN Head(received) ELSE Head(shutdown)

\* the coordinator has made its store and has not yet come back from the
\* web server's Shutdown
BeforeShutdowns ==
    cpc \in {"probeKeepAlives", "probeShutdown", "probeDraining", "probeClose",
             "webKeepAlives", "webShutdown"}

\* C1: during Start, IsReady() is never true while a listener of the
\* instance has not yet completed its bind attempt.
C1_ReadyOnlyAfterBinds ==
    (InStart /\ IsReady) => \A s \in Servers : BindCompleted(s)

\* C2: once the coordinator has consumed the stop trigger and made its
\* store, IsReady() is false, and it is so before Shutdown is invoked on the
\* probe server or on the web server.
C2_NotReadyBeforeShutdown ==
    BeforeShutdowns => ~IsReady

\* C3: the coordinator puts exactly one value on the shutdown channel: never
\* more than one, and one once it has ended.
C3_ExactlyOneCompletionValue ==
    /\ Placed <= 1
    /\ cpc = "done" => Placed = 1

\* C4: the coordinator is never blocked on a send to the shutdown channel,
\* whether or not the caller receives.
C4_CoordinatorNeverBlocked ==
    cpc \in {"sendErr", "sendNil"} => Len(shutdown) < ShutdownCap

\* C5: at every step in which the caller receives a completion value,
\* IsReady() is false.
C5_NotReadyWhenCompletionReceived ==
    [][Len(received') > Len(received) => ~IsReady]_vars

\* C6: at every step in which Start returns a nil error, IsReady() is true.
C6_ReadyWhenStartReturnsNil ==
    [][(startRet # "nil" /\ startRet' = "nil") => IsReady']_vars

\* C7: from a successful return of Start until the stop trigger is
\* consumed, readiness is Ready and every listener accepts connections.
C7_ServingInvariant ==
    (startRet = "nil" /\ cpc = "waitStop") =>
        (IsReady /\ \A s \in Servers : Listening(s))

\* C8: a Start call that returned an error never had IsReady() true while
\* it ran, and IsReady() is false after it.
C8_FailedStartNeverReady ==
    startRet = "RuntimeError" => (~readyDuring /\ ~IsReady)

\* C9: when two or more triggers were sent, no second completion value is
\* produced.  (The stop channel is read once and no channel is ever closed,
\* so the sequence cannot run twice and no send can panic.)
C9_StopTriggerIdempotent ==
    nTrig >= 2 => Placed <= 1

\* C10: after a successful Start, a stop trigger in the stop channel leads
\* to Shutdown having been run on every listener and a completion value
\* having been put on the shutdown channel; the value is nil when every
\* graceful shutdown succeeded.
C10_StopLeadsToCompletion ==
    /\ (startRet = "nil" /\ cpc = "waitStop" /\ Len(stop) > 0)
          ~> (Placed >= 1 /\ \A s \in Servers : inShutdown[s])
    /\ []((Placed >= 1 /\ \A s \in Servers : shutRes[s] = "nil")
             => FirstValue = "nil")

\* a trigger was sent, every listener shut down gracefully and the caller
\* received nil
C10_Witness ==
    /\ startRet = "nil"
    /\ nTrig >= 1
    /\ cpc = "done"
    /\ \A s \in Servers : shutRes[s] = "nil" /\ inShutdown[s]
    /\ received = <<"nil">>

\* the ListenAndServe of http.Server s, run for the latest Start call,
\* failed to bind
BindFailed(s) == nStarts > 0 /\ lerr[nStarts][s] = "bind"

\* the latest Start call has returned
StartReturned == nStarts > 0 /\ spc = "idle"

\* C11: when the probe server fails to bind, Start returns a non-nil error
\* and no channels: the web server's listen loop is never spawned by that
\* call and no coordinator is started.
C11_ProbeBindFailureEndsStart ==
    (config.probeserver /\ BindFailed("probe")) =>
        /\ lpc[nStarts]["web"] = "none"
        /\ ~Registered
        /\ startRet \in {"none", "RuntimeError"}
        /\ StartReturned => startRet = "RuntimeError"

\* Start has returned the error of a failed probe bind
C11_Witness ==
    /\ config.probeserver
    /\ BindFailed("probe")
    /\ StartReturned
    /\ startRet = "RuntimeError"
    /\ lpc[nStarts]["probe"] = "done"

\* C12: when the web server fails to bind, Start returns a RuntimeError and
\* no channels, and no coordinator is started, with or without a probe
\* server that is already serving.
C12_WebBindFailureEndsStart ==
    BindFailed("web") =>
        /\ ~Registered
        /\ startRet \in {"none", "RuntimeError"}
        /\ StartReturned => startRet = "RuntimeError"

\* Start has returned the error of a failed web bind while the probe server
\* it started before is serving
C12_Witness ==
    /\ BindFailed("web")
    /\ StartReturned
    /\ startRet = "RuntimeError"
    /\ ~Registered
    /\ config.probeserver
    /\ lpc[nStarts]["probe"] = "serving"

\* http.Server s accepts connections: a listen loop serves on it and its
\* listener has not been closed by Shutdown or Close
Accepting(s) == Listening(s) /\ ~inShutdown[s]

\* the coordinator has invoked Shutdown on the web server
WebShutdownInvoked == cpc \in {"webDraining", "webClose", "sendErr", "sendNil", "done"}

\* the coordinator's shutdown of the probe server has finished, gracefully
\* or by Close
ProbeShutdownFinished ==
    \/ shutRes["probe"] = "nil"
    \/ shutRes["probe"] \in ShutdownErrs /\ closed["probe"]

\* C13: with a probe server, its shutdown has finished, gracefully or by
\* Close, whenever Shutdown has been invoked on the web server; and the
\* probe server does not accept connections once the web server's listener
\* was closed.
C13_ProbeShutdownFirst ==
    config.probeserver =>
        /\ WebShutdownInvoked => ProbeShutdownFinished
        /\ inShutdown["web"] => ~Accepting("probe")

\* Shutdown is running on the web server after the probe server, which was
\* serving, failed to shut down gracefully and was closed
C13_Witness ==
    /\ config.probeserver
    /\ startRet = "nil"
    /\ cpc = "webDraining"
    /\ shutRes["probe"] \in ShutdownErrs
    /\ closed["probe"]
    /\ Listening("probe")

\* the probe server's Shutdown ended because the deadline passed
ProbeUsedTimeout == config.probeserver /\ shutRes["probe"] = "deadline"

\* C14 as stated: when the probe server's Shutdown used up the whole
\* timeout, the web server's Shutdown is invoked with a full timeout of its
\* own.
C14_IndependentTimeouts ==
    (ProbeUsedTimeout /\ cpc = "webShutdown") => ctxLeft = TimeoutTicks

\* C14 amended: the timeout is one deadline shared by both Shutdown calls;
\* when the probe server's Shutdown used up the whole timeout, the web
\* server's Shutdown is invoked with a context that is done and has no time
\* of its own to wait.
C14_SharedDeadline ==
    (ProbeUsedTimeout /\ cpc \in {"webShutdown", "webDraining"}) => ctxLeft = 0

\* Shutdown is running on the web server after the probe server's Shutdown
\* ended on the deadline
C14_Witness ==
    /\ ProbeUsedTimeout
    /\ cpc = "webDraining"
    /\ ctxLeft = 0
    /\ Listening("web")

\* C15: when the web server's Shutdown fails, the coordinator calls Close on
\* it, and the value the caller receives from the shutdown channel is the
\* failure wrapped as a RuntimeError, not nil.
C15_WebShutdownFailureReported ==
    (shutRes["web"] \in ShutdownErrs /\ Placed >= 1) =>
        /\ closed["web"]
        /\ FirstValue = "RuntimeError"

\* the caller has received the RuntimeError of a web server that failed to
\* shut down and was closed
C15_Witness ==
    /\ shutRes["web"] \in ShutdownErrs
    /\ closed["web"]
    /\ received # <<>>
    /\ Head(received) = "RuntimeError"

\* C16 as stated: when the Shutdown of any http.Server of the instance
\* failed, the first value on the shutdown channel is not nil.
C16_NilOnlyOnFullSuccess ==
    (Placed >= 1 /\ \E s \in Servers : shutRes[s] \in ShutdownErrs) =>
        FirstValue # "nil"

\* C16 amended: the first value on the shutdown channel is nil exactly when
\* the web server's Shutdown succeeded and the RuntimeError exactly when it
\* failed, whatever the probe server's Shutdown returned.
C16_NilIffWebShutdownSucceeded ==
    Placed >= 1 =>
        /\ FirstValue = "nil" <=> shutRes["web"] = "nil"
        /\ FirstValue = "RuntimeError" <=> shutRes["web"] \in ShutdownErrs

\* the caller has received nil although the probe server failed to shut
\* down gracefully
C16_Witness ==
    /\ config.probeserver
    /\ shutRes["probe"] \in ShutdownErrs
    /\ shutRes["web"] = "nil"
    /\ received = <<"nil">>

\* the probe server's Shutdown returned an error to the coordinator
ProbeShutdownFailed == config.probeserver /\ shutRes["probe"] \in ShutdownErrs

\* C17: a failed Shutdown of the probe server does not end the sequence:
\* Close is called on the probe server, and after it Shutdown is invoked on
\* the web server and returns.
C17_ProbeFailureDoesNotAbort ==
    /\ ProbeShutdownFailed ~> (closed["probe"] /\ shutRes["web"] # "none")
    /\ []((ProbeShutdownFailed /\ shutRes["web"] # "none") => closed["probe"])

\* the coordinator has ended after a failed probe Shutdown, a Close of the
\* probe server and a Shutdown of the web server
C17_Witness ==
    /\ ProbeShutdownFailed
    /\ closed["probe"]
    /\ inShutdown["web"]
    /\ shutRes["web"] # "none"
    /\ cpc = "done"

\* C18: the instance has one readiness flag: the flag the coordinator
\* writes is the flag the listen loops write and IsReady() reads, so the
\* two never hold different values.
C18_SingleReadinessFlag ==
    Registered => copyHealth = healthStatus

\* the application port of the options once the default is applied
EffectivePort == IF options.Port = 0 THEN DefaultPort ELSE options.Port

\* C19: the instance has the web server, and has a probe server exactly
\* when the probe port of the options is above 0 and differs from the
\* application port after defaulting; probe port 80 with no port given has
\* no probe server.
C19_ProbeServerIffPortsDiffer ==
    /\ Servers \ {"probe"} = {"web"}
    /\ config.probeserver <=>
          (options.ProbePort > 0 /\ options.ProbePort # EffectivePort)
    /\ (options.Port = 0 /\ options.ProbePort = DefaultPort) => Servers = {"web"}

\* an instance made with probe port 80 and no port has started with the
\* web server only
C19_Witness ==
    /\ options.Port = 0
    /\ options.ProbePort = 80
    /\ ~config.probeserver
    /\ startRet = "nil"
    /\ Listening("web")
    /\ \A k \in StartIds : lpc[k]["probe"] = "none"

\* the health routes are registered on a router that http.Server s serves
HealthServedBy(s) == healthRoutes > 0 /\ config.routerOf = s

\* the http.Server the options select for the health routes
SelectedForHealth ==
    IF options.ProbePort = 0 THEN "none"
    ELSE IF options.ProbePort = EffectivePort THEN "web" ELSE "probe"

\* C20: once Start was called, the health routes are served by the
\* http.Server the options select and by no other: none with probe port 0,
\* the web server alone with equal ports, the probe server alone with
\* different ports.
C20_HealthRoutesOnSelectedListener ==
    nStarts > 0 => \A s \in Srvs : HealthServedBy(s) <=> s = SelectedForHealth

\* after a successful Start with different ports the probe server, which
\* accepts connections, serves the health routes and the web server does not
C20_Witness ==
    /\ startRet = "nil"
    /\ options.ProbePort # EffectivePort
    /\ HealthServedBy("probe")
    /\ ~HealthServedBy("web")
    /\ Accepting("probe")
    /\ Accepting("web")

\* the serve loop that the latest Start call spawned for s failed, and that
\* call returned nil
LateFailure(s) == nStarts > 0 /\ lerr[nStarts][s] = "serve" /\ startRet = "nil"

ShutdownCompleted == nStarts > 0 /\ \A s \in Servers : inShutdown[s]

\* C30: once the shutdown sequence has run on the instance, no listen loop
\* of any later Start call comes to serve: no step takes a listen loop to
\* serving.
C30_NoServingAfterShutdown ==
    [][ShutdownCompleted =>
          \A k \in StartIds, s \in Srvs :
              lpc'[k][s] = "serving" => lpc[k][s] = "serving"]_vars

\* a second Start call has returned after the shutdown that followed the
\* first, and no http.Server of the instance listens
C30_Witness ==
    /\ nStarts = 2
    /\ ShutdownCompleted
    /\ StartReturned
    /\ lerr[1]["web"] = "closed"
    /\ lerr[2]["web"] = "closed"
    /\ \A s \in Srvs : ~Listening(s)

\* a handler wrote a response in this step
Responded == resp' # resp

\* C21: every response of the liveness handler and of the readiness handler
\* is 200 if IsReady() is true when the request is handled and 503
\* otherwise, the same for both.
C21_ProbeStatusFollowsReadiness ==
    [][(Responded /\ resp'[1] \in HealthPaths) =>
          resp'[2] = IF IsReady THEN 200 ELSE 503]_vars

\* the liveness probe has answered 503 while the probe server was serving
C21_Witness ==
    /\ resp = <<"liveness", 503>>
    /\ ~IsReady
    /\ config.probeserver
    /\ Listening("probe")

\* C23: a step in which a handler writes a response, whatever the response,
\* changes nothing of the orchestrator: readiness, the program counters of
\* Start, of the listen loops and of the coordinator, the channels.
C23_RequestLeavesOrchestratorUnchanged ==
    [][Responded =>
          UNCHANGED <<healthStatus, copyHealth, spc, timer, lpc, lerr, cpc,
                      startRet, stop, shutdown, received, inShutdown,
                      keepAlives, closed, ctxLeft, shutRes, healthRoutes>>]_vars

\* a request got 404 from a server that is ready and waits for a stop
\* trigger
C23_Witness ==
    /\ resp = <<"notFound", 404>>
    /\ IsReady
    /\ startRet = "nil"
    /\ cpc = "waitStop"
    /\ stop = <<>>

\* C22: from NewServer until the first Start call, IsReady() is false, no
\* http.Server of the instance listens, and neither a listen loop nor a
\* coordinator exists, for every configuration.
C22_IdleBeforeStart ==
    nStarts = 0 =>
        /\ ~IsReady
        /\ \A s \in Srvs : ~Listening(s)
        /\ \A k \in StartIds, s \in Srvs : lpc[k][s] = "none"
        /\ cpc = "none"
        /\ spc = "idle"

\* an instance with a probe server of its own, before its first Start call
C22_Witness ==
    /\ nStarts = 0
    /\ config.probeserver
    /\ ~IsReady
    /\ startRet = "none"

\* NewServer was called and has returned
NewServerReturned == call.fn = "NewServer" /\ result.done

\* C27: the handler of the web server is the CORS middleware exactly when
\* one of the lists of allowed methods, allowed headers and allowed origins
\* is not empty; the other CORS options do not decide it.
C27_CORSWrappingIffAListIsSet ==
    NewServerReturned =>
        (result.value.webhandler = "cors" <=>
            \/ call.options.AllowedCORSMethods # <<>>
            \/ call.options.AllowedCORSHeaders # <<>>
            \/ call.options.AllowedCORSOrigins # <<>>)

\* NewServer returned a web server without the CORS middleware for options
\* with every other CORS option set and the three lists empty
C27_Witness ==
    /\ NewServerReturned
    /\ call.options.OtherCORS = OtherCORSOptions
    /\ call.options.AllowedCORSMethods = <<>>
    /\ call.options.AllowedCORSHeaders = <<>>
    /\ call.options.AllowedCORSOrigins = <<>>
    /\ result.value.webhandler = "router"

\* C28: NewServer returns a Server with port 80 for port 0, address
\* 0.0.0.0 for an empty address, 15 seconds for a zero shutdown timeout and
\* /healthz for an empty health root path when the probe port is above 0;
\* every value that is set is kept.
C28_DefaultsApplied ==
    NewServerReturned =>
        LET o == call.options
            v == result.value
        IN  /\ v.Port = IF o.Port = 0 THEN 80 ELSE o.Port
            /\ v.Address = IF o.Address = "" THEN "0.0.0.0" ELSE o.Address
            /\ v.ShutdownTimeout = IF o.ShutdownTimeout = 0 THEN 15 ELSE o.ShutdownTimeout
            /\ o.HealthRootPath # "" => v.HealthRootPath = o.HealthRootPath
            /\ (o.HealthRootPath = "" /\ o.ProbePort > 0) => v.HealthRootPath = "/healthz"
            /\ v.ProbePort = o.ProbePort

\* NewServer returned the defaults for options with a probe port only, and
\* kept the probe port
C28_Witness ==
    /\ NewServerReturned
    /\ call.options.Port = 0
    /\ call.options.Address = ""
    /\ call.options.ShutdownTimeout = 0
    /\ call.options.HealthRootPath = ""
    /\ call.options.ProbePort = 9899
    /\ result.value.Port = 80
    /\ result.value.HealthRootPath = "/healthz"
    /\ result.value.probeserver

\* protectedFileSystem.Open was called and has returned
OpenReturned == call.fn = "Open" /\ result.done

\* C24: Open returns a directory only if the index.html of that directory
\* opens. A directory whose index.html does not open is never returned: the
\* error is the one of closing the directory when closing fails, and the one
\* of opening index.html otherwise (not found, answered 404, when there is
\* none). A regular file that the wrapped filesystem opens and stats is
\* returned as it is, and an error of the wrapped Open or of Stat is returned
\* unchanged.
C24_DirectoryNeedsIndex ==
    OpenReturned =>
        LET f == call.fs
            r == result.value
        IN  /\ r.file = "dir" => f.index = "nil"
            /\ (f.open = "nil" /\ f.stat = "nil" /\ f.kind = "dir" /\ f.index # "nil") =>
                   /\ r.file = "nil"
                   /\ r.err = IF f.close # "nil" THEN f.close ELSE f.index
                   /\ (f.close = "nil" /\ f.index = "ErrNotExist") => FileServer(r) = 404
            /\ (f.open = "nil" /\ f.stat = "nil" /\ f.kind = "file") =>
                   r = [file |-> "file", err |-> "nil"]
            /\ f.open # "nil" => r = [file |-> "nil", err |-> f.open]
            /\ (f.open = "nil" /\ f.stat # "nil") => r = [file |-> "nil", err |-> f.stat]

\* C24 as stated: a directory is returned only if it has an index.html, a
\* directory without index.html fails as not found and is answered 404, and
\* a regular file is returned exactly as the wrapped filesystem opens it.
C24_FailsAsNotFound ==
    OpenReturned =>
        LET f == call.fs
            r == result.value
        IN  /\ r.file = "dir" => f.index = "nil"
            /\ (f.open = "nil" /\ f.kind = "dir" /\ f.index = "ErrNotExist") =>
                   /\ r.err = "ErrNotExist"
                   /\ FileServer(r) = 404
            /\ f.kind = "file" =>
                   r = [file |-> IF f.open = "nil" THEN "file" ELSE "nil", err |-> f.open]

\* Open refused a directory without index.html whose Close failed, with the
\* error of Close
C24_Witness ==
    /\ OpenReturned
    /\ call.fs.open = "nil"
    /\ call.fs.stat = "nil"
    /\ call.fs.kind = "dir"
    /\ call.fs.index = "ErrNotExist"
    /\ call.fs.close = "ErrClosed"
    /\ result.value = [file |-> "nil", err |-> "ErrClosed"]

\* AddFrontend was called and has returned
AddFrontendReturned == call.fn = "AddFrontend" /\ result.done

UpgradeReturned == call.fn = "Upgrade" /\ result.done

\* the entries of the allow-list: the fields between its commas, without
\* their leading and trailing spaces
AllowedEntries(allowList) ==
    {TrimSpace(Split(allowList)[i]) : i \in 1..Len(Split(allowList))}

\* C26: an upgrade is allowed exactly when the request has no Origin
\* header, or its Origin parses and the entries of the allow-list contain *
\* or the origin itself; every other upgrade is answered with a 4xx status
\* and the WebSocket handler is not called.
C26_OriginAllowedIffListed ==
    UpgradeReturned =>
        LET r == result.value
        IN  /\ r.allowed <=>
                   \/ call.origin = <<>>
                   \/ /\ ~ParseFails(call.origin)
                      /\ \/ <<"*">> \in AllowedEntries(call.allowList)
                         \/ call.origin \in AllowedEntries(call.allowList)
            /\ r.allowed => r.handlerCalled
            /\ ~r.allowed => r.status \in 400..499 /\ ~r.handlerCalled

\* an upgrade whose Origin parses and is not among the entries of a list
\* that is set was answered 403 without calling the handler
C26_Witness ==
    /\ UpgradeReturned
    /\ call.origin = <<"a", "a">>
    /\ call.allowList = <<" ", "a", ",">>
    /\ result.value = [allowed |-> FALSE, status |-> 403, handlerCalled |-> FALSE]

\* Start returns in this step
StartReturns == spc # "idle" /\ spc' = "idle"

\* C31: a Start call made after Shutdown or Close was called on every
\* http.Server of the instance returns nil with a coordinator waiting on new,
\* empty stop and shutdown channels, while no http.Server accepts
\* connections and IsReady() is false.
C31_StartAfterShutdownReturnsNil ==
    [][(StartReturns /\ ShutdownCompleted) =>
          /\ startRet' = "nil"
          /\ cpc' = "waitStop"
          /\ stop' = <<>>
          /\ shutdown' = <<>>
          /\ \A s \in Srvs : ~Accepting(s)'
          /\ ~IsReady']_vars

\* the second Start call, made after the shutdown of the probe server and of
\* the web server, has returned nil; both its listen loops ended on
\* "http: Server closed"
C31_Witness ==
    /\ nStarts = 2
    /\ StartReturned
    /\ startRet = "nil"
    /\ config.probeserver
    /\ lerr[2]["probe"] = "closed"
    /\ lerr[2]["web"] = "closed"
    /\ lpc[2]["web"] = "done"
    /\ cpc = "waitStop"
    /\ ~IsReady
    /\ \A s \in Srvs : ~Accepting(s)

\* C32: once Shutdown or Close has been called on every http.Server of the
\* instance, IsReady() becomes false, and while no Start call is in progress
\* it does not become true again.
C32_NotReadyAfterShutdown ==
    /\ ShutdownCompleted ~> ~IsReady
    /\ [][(ShutdownCompleted /\ ~IsReady /\ spc = "idle" /\ spc' = "idle") =>
             ~IsReady']_vars

\* the web server's listen loop has returned "http: Server closed" after the
\* coordinator's shutdown and has stored 0, while the coordinator's own
\* store went to its copy
C32_Witness ==
    /\ nStarts = 1
    /\ ShutdownCompleted
    /\ cpc = "done"
    /\ lerr[1]["web"] = "closed"
    /\ lpc[1]["web"] = "done"
    /\ readyDuring
    /\ ~IsReady

\* the probe server's listen loop of Start call k serves, and the web
\* server's listen loop of that call failed to bind
ProbeLeftServing(k) ==
    /\ config.probeserver
    /\ lpc[k]["probe"] = "serving"
    /\ lerr[k]["web"] = "bind"

\* C33: a probe server's listen loop that serves after the web server of
\* the same Start call failed to bind accepts connections, with no
\* coordinator and no Shutdown or Close of the probe server; once Start has
\* returned IsReady() is false and the probes answer 503; and the loop stops
\* serving only by a failure of its own.
C33_ProbeLeftServing ==
    /\ [](\A k \in StartIds :
            ProbeLeftServing(k) =>
                /\ Accepting("probe")
                /\ cpc = "none"
                /\ shutRes["probe"] = "none"
                /\ ~closed["probe"]
                /\ spc = "idle" =>
                      /\ startRet = "RuntimeError"
                      /\ ~IsReady
                      /\ healthHandler("liveness") = 503
                      /\ healthHandler("readiness") = 503)
    /\ [][\A k \in StartIds :
            (ProbeLeftServing(k) /\ lpc'[k]["probe"] # "serving") =>
                lerr'[k]["probe"] = "serve"]_vars

\* the first Start call returned the bind error of the web server and its
\* probe server still serves after a second Start call, which failed too
C33_Witness ==
    /\ nStarts = 2
    /\ StartReturned
    /\ ProbeLeftServing(1)
    /\ lerr[2]["probe"] = "bind"
    /\ startRet = "RuntimeError"
    /\ ~IsReady

\* C34: the keep-alives of an http.Server are disabled before Shutdown is
\* invoked on that server, and not earlier: the keep-alives of the web
\* server are still enabled until the coordinator is about to invoke its
\* Shutdown, so they are enabled while the probe server is shut down.
C34_KeepAlivesOffBeforeOwnShutdown ==
    /\ \A s \in Servers : inShutdown[s] => ~keepAlives[s]
    /\ (~inShutdown["web"] /\ cpc # "webShutdown") => keepAlives["web"]

\* C34 as stated: when Shutdown has been invoked on an http.Server of the
\* instance, the keep-alives of every http.Server of the instance are
\* disabled.
C34_KeepAlivesOffBeforeAnyShutdown ==
    (\E s \in Servers : inShutdown[s]) => \A s \in Servers : ~keepAlives[s]

\* Shutdown of the probe server is in progress with the keep-alives of the
\* probe server disabled and those of the web server enabled
C34_Witness ==
    /\ config.probeserver
    /\ cpc = "probeDraining"
    /\ inShutdown["probe"]
    /\ ~keepAlives["probe"]
    /\ Accepting("web")
    /\ keepAlives["web"]

\* C35: every Start call returns: a Start call in progress leads to a state
\* with no Start call in progress, also when a listen loop serves and never
\* returns.
C35_StartReturns == InStart ~> ~InStart

\* Start has returned nil while the listen loop it spawned for the web
\* server serves
C35_Witness ==
    /\ StartReturned
    /\ startRet = "nil"
    /\ lpc[nStarts]["web"] = "serving"
    /\ Accepting("web")

\* C36: NewServer does not check the port: the port of webserver.Addr is
\* negative exactly when the port of the options is, and is then that port.
\* A probe port that is not above 0 gives no probe router and no probe
\* server, so the port of probeserver.Addr is always above 0.
C36_NegativePortKept ==
    NewServerReturned =>
        LET o == call.options
            v == result.value
        IN  /\ v.Port < 0 <=> o.Port < 0
            /\ o.Port < 0 => v.Port = o.Port
            /\ o.ProbePort <= 0 => ~v.proberouter /\ ~v.probeserver
            /\ v.probeserver => v.ProbePort > 0

\* C36 as stated: neither webserver.Addr nor probeserver.Addr is made with
\* a negative port.
C36_NoNegativePortInAddr ==
    NewServerReturned =>
        /\ result.value.Port >= 0
        /\ result.value.probeserver => result.value.ProbePort >= 0

\* NewServer returned a web server whose address has the negative port of
\* the options, and no probe server for a negative probe port
C36_Witness ==
    /\ NewServerReturned
    /\ call.options.Port = -1
    /\ call.options.ProbePort = -1
    /\ result.value.Port = -1
    /\ ~result.value.probeserver

\* C38: with WEBSOCKET_ALLOWED_ORIGINS empty or not set, an upgrade is
\* allowed exactly when the request has no Origin header: every request
\* with an Origin header is answered 403 without a call of the handler,
\* also when the host of the Origin is the host of the request.
C38_EmptyListRejectsEveryOrigin ==
    (UpgradeReturned /\ call.allowList = <<>>) =>
        /\ result.value.allowed <=> call.origin = <<>>
        /\ call.origin # <<>> =>
              result.value = [allowed |-> FALSE, status |-> 403, handlerCalled |-> FALSE]

\* with no allow-list, an upgrade whose Origin has the host of the request
\* was rejected
C38_Witness ==
    /\ UpgradeReturned
    /\ call.allowList = <<>>
    /\ call.origin = <<"a">>
    /\ ~call.hostDiffers
    /\ ~result.value.allowed
    /\ ~result.value.handlerCalled

\* a Start call made while the coordinator of an earlier call existed has
\* returned an error
FailedRestart == StartReturned /\ startRet = "RuntimeError" /\ cpc # "none"

\* C37: after a Start call that failed to bind while the listeners of an
\* earlier Start call served, IsReady() is false; as long as no trigger was
\* sent and no listener failed, every http.Server of the instance still
\* accepts connections and the coordinator still waits.
C37_FailedRestartClearsReadiness ==
    FailedRestart =>
        /\ ~IsReady
        /\ (nTrig = 0 /\ ServeFailures = {}) =>
              /\ cpc = "waitStop"
              /\ \A s \in Servers : Accepting(s)

\* the second Start call failed to bind the web server while the web server
\* of the first call serves and no trigger was sent; IsReady() is false
C37_Witness ==
    /\ FailedRestart
    /\ nStarts = 2
    /\ lerr[2]["web"] = "bind"
    /\ lpc[1]["web"] = "serving"
    /\ Accepting("web")
    /\ cpc = "waitStop"
    /\ nTrig = 0
    /\ ~IsReady

====
